---- MODULE Spec2Model ----
(***************************************************************************)
(* Model of FrequencyInputOptions (src/src/options/frequency_input.cpp):   *)
(* the option setup, the command line parse that binds the option values,  *)
(* the lazy preparation of the input stream (prepare_data_ and its three   *)
(* format branches), the sample name filter, and the consumers of the      *)
(* prepared stream (plain iteration and sliding windows).                  *)
(*                                                                         *)
(* Strings are sequences of one-character strings, so that splitting a     *)
(* list, building a name from a prefix and a number, and parsing a region  *)
(* are computed rather than assumed.                                       *)
(***************************************************************************)
EXTENDS Integers, Sequences, FiniteSets, TLC

VARIABLES
    pc,             \* "setup": options being added; "run": parsed, command running;
                    \* "exit": the command line was rejected, the program ended
    option,         \* the options that have been added to the app (option != nullptr)
    excludes,       \* pairs of options registered as mutually exclusive
    count,          \* the options given on the command line (*option is true)
    value,          \* the values bound to the options
    file,           \* the content of the input file
    fs,             \* the sample list files that exist: path -> lines
    sample_names_,  \* mutable member sample_names_
    generator_,     \* mutable member generator_
    opened,         \* number of times an input file has been opened
    ret,            \* what the last call of the public interface returned or threw
    yielded,        \* the Variants handed to the consumer so far
    calls,          \* number of calls of the public interface so far
    range,          \* whether get_iterator() has handed out a range over generator_
    window,         \* state of the sliding window iterator handed out, if any
    windows,        \* the windows emitted so far
    conversions,    \* number of calls of convert_to_variant so far
    pulls,          \* number of calls of the generator function so far
    ended,          \* whether a call of the generator function has returned nullptr
    adapter         \* the handles on the input file and the read-ahead of the reader

vars == << pc, option, excludes, count, value, file, fs, sample_names_, generator_,
           opened, ret, yielded, calls, range, window, windows, conversions, pulls, ended,
           adapter >>

-----------------------------------------------------------------------------
(* Bounds of the model *)

MaxSamples == 2
MaxRecords == 2
MaxListLen == 3
MaxCalls == 2
MaxPos == 5
MaxWidth == 3
MaxRegionPos == 3
MaxAlternatives == 2
MaxPulls == 3
MaxReadAhead == 2

-----------------------------------------------------------------------------
(* Strings *)

Digits == << "0", "1", "2", "3", "4", "5", "6", "7", "8", "9" >>

IsDigit(c) == \E d \in 1..10 : Digits[d] = c

DigitValue(c) == (CHOOSE d \in 1..10 : Digits[d] = c) - 1

\* std::to_string of a size_t: the decimal digits, most significant first.
RECURSIVE to_string(_)
to_string(n) ==
    IF n < 10 THEN << Digits[n + 1] >>
    ELSE Append(to_string(n \div 10), Digits[(n % 10) + 1])

\* The value of a string of decimal digits.
RECURSIVE to_number(_)
to_number(str) ==
    IF str = <<>> THEN 0
    ELSE 10 * to_number(SubSeq(str, 1, Len(str) - 1)) + DigitValue(str[Len(str)])

IsNumber(str) == str # <<>> /\ \A i \in 1..Len(str) : IsDigit(str[i])

\* The delimiters of the inline sample list: split( value, ",\t" ).
Delimiters == { ",", "\t" }

\* genesis::utils::split with its default of dropping empty tokens.
RECURSIVE split_(_, _, _)
split_(str, cur, acc) ==
    IF str = <<>>
    THEN IF cur = <<>> THEN acc ELSE Append(acc, cur)
    ELSE IF Head(str) \in Delimiters
         THEN split_(Tail(str), <<>>, IF cur = <<>> THEN acc ELSE Append(acc, cur))
         ELSE split_(Tail(str), Append(cur, Head(str)), acc)

split(str) == split_(str, <<>>, <<>>)

\* All strings over alphabet A of length at most n.
StringsUpTo(A, n) == UNION { [1..k -> A] : k \in 0..n }

Range(s) == { s[i] : i \in 1..Len(s) }

\* The index of the first occurrence of x in s (std::find), 0 when absent.
IndexOf(s, x) ==
    IF \E i \in 1..Len(s) : s[i] = x
    THEN CHOOSE i \in 1..Len(s) : s[i] = x /\ \A j \in 1..(i - 1) : s[j] # x
    ELSE 0

Min(S) == CHOOSE x \in S : \A y \in S : x <= y

-----------------------------------------------------------------------------
(* Options: setup *)

InputFileOptions == { "pileup_file_", "sync_file_", "vcf_file_" }

FilterOptions == { "filter_region_", "filter_samples_include_", "filter_samples_exclude_" }

WindowOptions == { "window_width_", "window_stride_" }

AllOptions == InputFileOptions \cup { "sample_name_prefix_" } \cup FilterOptions \cup WindowOptions

\* a->excludes( b ) registers the exclusion on both options.
Excludes(a, b) == { << a, b >>, << b, a >> }

\* Only one input file format allowed at a time.
input_file_excludes ==
    UNION { Excludes(a, b) : << a, b >> \in { p \in InputFileOptions \X InputFileOptions : p[1] # p[2] } }

\* Mutation: the two sample filter options are not made mutually exclusive.
no_filter_samples_excludes == {}

\* filter_samples_exclude_.option->excludes( filter_samples_include_.option )
filter_samples_excludes == Excludes("filter_samples_exclude_", "filter_samples_include_")

\* The internal_check of each add function: the option was not added before.
add_pileup_input_opt_to_app ==
    /\ pc = "setup"
    /\ "pileup_file_" \notin option
    /\ option' = option \cup { "pileup_file_" }
    /\ UNCHANGED << pc, excludes, count, value, file, fs, sample_names_, generator_,
                    opened, ret, yielded, calls, range, window, windows,
                    conversions, pulls, ended, adapter >>

add_sync_input_opt_to_app ==
    /\ pc = "setup"
    /\ "sync_file_" \notin option
    /\ option' = option \cup { "sync_file_" }
    /\ UNCHANGED << pc, excludes, count, value, file, fs, sample_names_, generator_,
                    opened, ret, yielded, calls, range, window, windows,
                    conversions, pulls, ended, adapter >>

add_vcf_input_opt_to_app ==
    /\ pc = "setup"
    /\ "vcf_file_" \notin option
    /\ option' = option \cup { "vcf_file_" }
    /\ UNCHANGED << pc, excludes, count, value, file, fs, sample_names_, generator_,
                    opened, ret, yielded, calls, range, window, windows,
                    conversions, pulls, ended, adapter >>

add_sample_name_prefix_opt_to_app ==
    /\ pc = "setup"
    /\ "sample_name_prefix_" \notin option
    /\ option' = option \cup { "sample_name_prefix_" }
    /\ UNCHANGED << pc, excludes, count, value, file, fs, sample_names_, generator_,
                    opened, ret, yielded, calls, range, window, windows,
                    conversions, pulls, ended, adapter >>

add_filter_opts_to_app ==
    /\ pc = "setup"
    /\ "filter_region_" \notin option
    /\ option' = option \cup FilterOptions
    /\ excludes' = excludes \cup filter_samples_excludes
    /\ UNCHANGED << pc, count, value, file, fs, sample_names_, generator_,
                    opened, ret, yielded, calls, range, window, windows,
                    conversions, pulls, ended, adapter >>

add_sliding_window_opts_to_app ==
    /\ pc = "setup"
    /\ "window_width_" \notin option
    /\ option' = option \cup WindowOptions
    /\ UNCHANGED << pc, excludes, count, value, file, fs, sample_names_, generator_,
                    opened, ret, yielded, calls, range, window, windows,
                    conversions, pulls, ended, adapter >>

\* Adds the three input file options, makes them mutually exclusive, and adds
\* the prefix and the filter options as asked.
add_frequency_input_opts_to_app ==
    /\ pc = "setup"
    /\ option \cap InputFileOptions = {}
    /\ \E with_sample_name_prefix \in BOOLEAN, with_filters \in BOOLEAN :
        /\ with_sample_name_prefix => "sample_name_prefix_" \notin option
        /\ with_filters => "filter_region_" \notin option
        /\ option' = option \cup InputFileOptions
                        \cup (IF with_sample_name_prefix THEN { "sample_name_prefix_" } ELSE {})
                        \cup (IF with_filters THEN FilterOptions ELSE {})
        /\ excludes' = excludes \cup input_file_excludes
                        \cup (IF with_filters THEN filter_samples_excludes ELSE {})
    /\ UNCHANGED << pc, count, value, file, fs, sample_names_, generator_,
                    opened, ret, yielded, calls, range, window, windows,
                    conversions, pulls, ended, adapter >>

-----------------------------------------------------------------------------
(* The input file and the values of the options *)

is_set(opt) == opt \in option /\ opt \in count

\* A record of a VCF file: one site, whether it is a SNP, the number of its
\* alternative alleles, and whether it has the AD format field. The records of
\* pileup and sync files have the same shape; only their site is looked at.
VcfRecord(chr, pos, is_snp, alternatives_count, has_ad) ==
    [ chromosome |-> chr, position |-> pos, is_snp |-> is_snp,
      alternatives_count |-> alternatives_count, has_ad |-> has_ad ]

\* A record with one alternative allele and the AD field that is a SNP or,
\* when not usable, is not one.
Record(chr, pos, usable) == VcfRecord(chr, pos, usable, 1, TRUE)

\* The names in the header of the VCF file, in column order. They are not tied
\* to the column index: column i of n is named n + 1 - i.
vcf_header_names == [ i \in 1..file.smp_cnt |-> to_string(file.smp_cnt + 1 - i) ]

NoError == [ error |-> "none", name |-> <<>> ]

Error(kind) == [ error |-> kind, name |-> <<>> ]

ErrorNaming(kind, str) == [ error |-> kind, name |-> str ]

-----------------------------------------------------------------------------
(* Sample name filtering *)

\* is_file( value ): the value names an existing file.
is_file(str) == str \in DOMAIN fs

\* If the input is a file, read it line by line as sample names. Otherwise, split.
get_sample_name_list(str) == IF is_file(str) THEN fs[str] ELSE split(str)

\* Mutation: the filter vector starts out all true.
sample_filter_init_true(is_include, is_exclude) == TRUE

\* The initial value of every entry of the filter vector.
sample_filter_init(is_include, is_exclude) == is_exclude

\* Mutation: a listed name is always kept.
sample_filter_listed_true(is_include, is_exclude) == TRUE

\* The value set at the index of a listed name.
sample_filter_listed(is_include, is_exclude) == is_include

\* The filter as bool per sample (which samples to use), or the error thrown.
get_sample_filter(sample_names) ==
    LET is_include == value.filter_samples_include_ # <<>>
        is_exclude == value.filter_samples_exclude_ # <<>>
        list == get_sample_name_list(
                    IF is_include THEN value.filter_samples_include_
                    ELSE value.filter_samples_exclude_ )
        unknown == { i \in 1..Len(list) : IndexOf(sample_names, list[i]) = 0 }
        listed == { IndexOf(sample_names, list[i]) : i \in 1..Len(list) }
    IN  IF ~ (is_include \/ is_exclude) \/ is_include = is_exclude
        THEN [ err |-> Error("InternalError"), sample_filter |-> <<>> ]
        ELSE IF unknown # {}
        THEN [ err |-> ErrorNaming("InvalidSampleName", list[Min(unknown)]),
               sample_filter |-> <<>> ]
        ELSE [ err |-> NoError,
               sample_filter |-> [ j \in 1..Len(sample_names) |->
                    IF j \in listed THEN sample_filter_listed(is_include, is_exclude)
                    ELSE sample_filter_init(is_include, is_exclude) ] ]

\* Mutation: the kept indices are collected from the back.
RECURSIVE sample_filter_indices_descending(_)
sample_filter_indices_descending(sample_filter) ==
    IF sample_filter = <<>> THEN <<>>
    ELSE LET front == sample_filter_indices_descending(
                            SubSeq(sample_filter, 1, Len(sample_filter) - 1))
         IN  IF sample_filter[Len(sample_filter)]
             THEN << Len(sample_filter) - 1 >> \o front
             ELSE front

\* The indices (0-based, as in the code) of the samples that the filter keeps.
RECURSIVE get_sample_filter_indices(_)
get_sample_filter_indices(sample_filter) ==
    IF sample_filter = <<>> THEN <<>>
    ELSE LET front == get_sample_filter_indices(SubSeq(sample_filter, 1, Len(sample_filter) - 1))
         IN  IF sample_filter[Len(sample_filter)]
             THEN Append(front, Len(sample_filter) - 1)
             ELSE front

\* The dummy names of a file without sample names: prefix + (i+1) for i in 0..smp_cnt-1.
dummy_sample_names(smp_cnt) ==
    [ i \in 1..smp_cnt |-> value.sample_name_prefix_ \o to_string((i - 1) + 1) ]

\* Mutation: the kept samples are numbered by their place in the filtered list.
filtered_sample_name_renumbered(k, idx) == value.sample_name_prefix_ \o to_string(k)

\* The name of the k-th kept sample, whose index in the file is idx (0-based).
filtered_sample_name(k, idx) == value.sample_name_prefix_ \o to_string(idx + 1)

\* Mutation: the sample names are not renewed after filtering.
sample_names_not_renewed(old_names, sample_indices) == old_names

\* sample_names_.clear(), then one name per kept index.
renew_sample_names(old_names, sample_indices) ==
    [ k \in 1..Len(sample_indices) |-> filtered_sample_name(k, sample_indices[k]) ]

-----------------------------------------------------------------------------
(* Region filter *)

NoRegion == [ chromosome |-> <<>>, start |-> 0, end |-> 0 ]

\* The position of the first ".." in str, 0 when absent.
IndexOfDots(str) ==
    LET at == { i \in 1..(Len(str) - 1) : str[i] = "." /\ str[i + 1] = "." }
    IN  IF at = {} THEN 0 ELSE Min(at)

\* The region of a chromosome and the texts of its first and last position.
region_interval(chr, first, last) ==
    IF chr = <<>> \/ ~ IsNumber(first) \/ ~ IsNumber(last)
    THEN [ err |-> Error("InvalidRegion"), region |-> NoRegion ]
    ELSE [ err |-> NoError,
           region |-> [ chromosome |-> chr, start |-> to_number(first),
                        end |-> to_number(last) ] ]

\* The region of the whole chromosome: start = end = 0.
region_chromosome(chr) ==
    IF chr = <<>> THEN [ err |-> Error("InvalidRegion"), region |-> NoRegion ]
    ELSE [ err |-> NoError, region |-> [ chromosome |-> chr, start |-> 0, end |-> 0 ] ]

\* The text after the colon: "position", "start-end" or "start..end".
region_positions(chr, rest, dash, dots) ==
    IF dash > 0
    THEN region_interval(chr, SubSeq(rest, 1, dash - 1), SubSeq(rest, dash + 1, Len(rest)))
    ELSE IF dots > 0
    THEN region_interval(chr, SubSeq(rest, 1, dots - 1), SubSeq(rest, dots + 2, Len(rest)))
    ELSE region_interval(chr, rest, rest)

region_at_colon(str, colon) ==
    IF colon = 0 THEN region_chromosome(str)
    ELSE region_positions(SubSeq(str, 1, colon - 1), SubSeq(str, colon + 1, Len(str)),
                          IndexOf(SubSeq(str, colon + 1, Len(str)), "-"),
                          IndexOfDots(SubSeq(str, colon + 1, Len(str))))

\* "chr", "chr:position", "chr:start-end" or "chr:start..end".
parse_genome_region(str) == region_at_colon(str, IndexOf(str, ":"))

\* Mutation: the end of the interval is not part of the region.
is_covered_exclusive_end(region, record) ==
    /\ record.chromosome = region.chromosome
    /\ \/ region.start = 0 /\ region.end = 0
       \/ region.start <= record.position /\ record.position < region.end

is_covered(region, record) ==
    /\ record.chromosome = region.chromosome
    /\ \/ region.start = 0 /\ region.end = 0
       \/ region.start <= record.position /\ record.position <= region.end

-----------------------------------------------------------------------------
(* The generator: the lambda that captures the iterator over the input *)

NoGenerator ==
    [ set |-> FALSE, format |-> "none", it |-> <<>>, sample_filter |-> <<>>,
      filtered |-> FALSE, region |-> NoRegion ]

\* The members that prepare_data_ works on, and the exception in flight, if any.
Members ==
    [ sample_names_ |-> sample_names_, generator_ |-> generator_, opened |-> opened,
      err |-> NoError ]

Throw(m, e) == [ m EXCEPT !.err = e ]

Failed(m) == m.err.error # "none"

\* The members after a step of the preparation.
Prepared(names, generator, n, err) ==
    [ sample_names_ |-> names, generator_ |-> generator, opened |-> n, err |-> err ]

\* Mutation: the record that was read at the open is not handed on.
iterator_begin_after_first == Tail(file.records)

\* Mutation: the iterator hands on the records from the last to the first.
iterator_begin_reversed ==
    [ i \in 1..Len(file.records) |-> file.records[Len(file.records) + 1 - i] ]

\* The iterator that the generator captures: it stands at the first record of
\* the file that was opened last, which the open has read.
iterator_begin == file.records

\* The generator over the iterator, with the region filter if there is one.
generator_over(names, n, format, sample_filter, filtered, parsed) ==
    IF parsed.err.error # "none" THEN Prepared(names, NoGenerator, n, parsed.err)
    ELSE Prepared(names,
                  [ set |-> TRUE, format |-> format, it |-> iterator_begin,
                    sample_filter |-> sample_filter, filtered |-> filtered,
                    region |-> parsed.region ],
                  n, NoError)

\* Mutation: the region filter is installed whatever the region option holds.
filter_region_never_empty == FALSE

\* filter_region_.value.empty()
filter_region_empty == value.filter_region_ = <<>>

\* Apply region filter if necessary.
make_generator(names, n, format, sample_filter) ==
    IF filter_region_empty
    THEN generator_over(names, n, format, sample_filter, FALSE,
                        [ err |-> NoError, region |-> NoRegion ])
    ELSE generator_over(names, n, format, sample_filter, TRUE,
                        parse_genome_region(value.filter_region_))

\* Mutation: every SNP that has the AD field is let through.
vcf_range_filter_any_snp(record) == record.is_snp /\ record.has_ad

\* The filter over the VCF input: only biallelic SNPs with the AD format field.
vcf_range_filter(record) ==
    LET is_snp == record.is_snp /\ record.alternatives_count = 1
        has_ad == record.has_ad
    IN  is_snp /\ has_ad

\* The content filter of the VCF range, and the region filter of all formats.
is_retained(g, record) ==
    /\ g.format = "vcf" => vcf_range_filter(record)
    /\ g.filtered => is_covered(g.region, record)

\* The payload of a site: one entry per kept column, here the column itself.
convert_to_variant(g, record) ==
    LET kept == get_sample_filter_indices(g.sample_filter)
    IN  [ chromosome |-> record.chromosome, position |-> record.position,
          samples |-> [ k \in 1..Len(kept) |-> kept[k] + 1 ] ]

NoVariant == [ chromosome |-> <<>>, position |-> 0, samples |-> <<>> ]

\* Mutation: the filter skips at most one record.
skip_to_retained_once(g, records) ==
    IF records = <<>> \/ is_retained(g, Head(records)) THEN records
    ELSE Tail(records)

RECURSIVE skip_to_retained(_, _)
skip_to_retained(g, records) ==
    IF records = <<>> \/ is_retained(g, Head(records)) THEN records
    ELSE skip_to_retained(g, Tail(records))

\* Mutation: the records are converted before the filter looks at them.
generator_conversions_before_filter(skipped, found) == skipped + (IF found THEN 1 ELSE 0)

\* Mutation: a Variant is made in every call, also at the end of the input.
generator_conversions_every_call(skipped, found) == 1

\* The calls of convert_to_variant in one call of the generator function that
\* passes over skipped records which the filters reject: one, for the record
\* that the call returns, and none at the end of the input.
generator_conversions(skipped, found) == IF found THEN 1 ELSE 0

\* One call of the generator function: the next Variant, or nullptr at the end.
generator_get(g) ==
    LET at == skip_to_retained(g, g.it)
    IN  IF at = <<>>
        THEN [ found |-> FALSE, variant |-> NoVariant, it |-> <<>>,
               converted |-> generator_conversions(Len(g.it), FALSE) ]
        ELSE [ found |-> TRUE, variant |-> convert_to_variant(g, Head(at)), it |-> Tail(at),
               converted |-> generator_conversions(Len(g.it) - Len(at), TRUE) ]

\* The counts of the calls of the generator function and of the conversions.
Counts == [ conversions |-> conversions, pulls |-> pulls, ended |-> ended ]

NoCounts == [ conversions |-> 0, pulls |-> 0, ended |-> FALSE ]

\* The counts after a call of the generator function that returned r.
counted(acc, r) ==
    [ conversions |-> acc.conversions + r.converted, pulls |-> acc.pulls + 1,
      ended |-> acc.ended \/ ~ r.found ]

\* The records that the filter range of generator g lets through, in order.
RECURSIVE filter_range(_, _)
filter_range(g, records) ==
    IF skip_to_retained(g, records) = <<>> THEN <<>>
    ELSE << Head(skip_to_retained(g, records)) >>
         \o filter_range(g, Tail(skip_to_retained(g, records)))

-----------------------------------------------------------------------------
(* prepare_data_ *)

all_samples == [ j \in 1..file.smp_cnt |-> TRUE ]

\* Filter sample names as needed. With both lists given, the assert of the
\* prepare functions or the internal_check of get_sample_filter ends the call.
has_sample_filter == value.filter_samples_include_ # <<>> \/ value.filter_samples_exclude_ # <<>>

\* The internal_check of the three prepare functions: the data is not yet prepared.
not_yet_prepared(m) == ~ m.generator_.set /\ m.sample_names_ = <<>>

\* With a sample filter: the file is opened again with the filter, and the
\* sample names are renewed; an unknown name leaves the dummy names behind.
prepare_filtered_(format, n, names, f) ==
    IF f.err.error # "none" THEN Prepared(names, NoGenerator, n, f.err)
    ELSE make_generator(renew_sample_names(names, get_sample_filter_indices(f.sample_filter)),
                        n + 1, format, f.sample_filter)

\* Mutation: the iterator over an empty file is taken as good.
iterator_good_always(records) == TRUE

\* if( ! it ): the iterator that was opened on the file has a first record.
iterator_good(records) == records # <<>>

\* The file has been opened (n opens so far), which reads its first record.
prepare_opened_(format, n) ==
    IF ~ iterator_good(file.records) THEN Prepared(<<>>, NoGenerator, n, Error("EmptyInput"))
    ELSE IF ~ has_sample_filter
    THEN make_generator(dummy_sample_names(file.smp_cnt), n, format, all_samples)
    ELSE prepare_filtered_(format, n, dummy_sample_names(file.smp_cnt),
                           get_sample_filter(dummy_sample_names(file.smp_cnt)))

prepare_data_pileup_(m) ==
    IF ~ not_yet_prepared(m) THEN Throw(m, Error("InternalError"))
    ELSE prepare_opened_("pileup", m.opened + 1)

\* The same approach as in prepare_data_pileup_.
prepare_data_sync_(m) ==
    IF ~ not_yet_prepared(m) THEN Throw(m, Error("InternalError"))
    ELSE prepare_opened_("sync", m.opened + 1)

\* The VCF reader opened on the file, restricted to the listed sample names
\* (or to all others, when inverse): the samples it keeps, or the error for a
\* listed name that the header does not have.
VcfInputIterator(use_list, list, inverse) ==
    LET names == vcf_header_names
        unknown == { i \in 1..Len(list) : IndexOf(names, list[i]) = 0 }
    IN  IF ~ use_list THEN [ err |-> NoError, sample_filter |-> all_samples ]
        ELSE IF unknown # {}
        THEN [ err |-> ErrorNaming("InvalidSampleName", list[Min(unknown)]),
               sample_filter |-> <<>> ]
        ELSE [ err |-> NoError,
               sample_filter |-> [ j \in 1..Len(names) |->
                    IF names[j] \in Range(list) THEN ~ inverse ELSE inverse ] ]

\* header().get_sample_names(): only the names that the reader keeps.
get_sample_names(sample_filter) ==
    LET kept == get_sample_filter_indices(sample_filter)
    IN  [ k \in 1..Len(kept) |-> vcf_header_names[kept[k] + 1] ]

\* Mutation: the header is not asked for the AD format field.
has_format_unchecked == TRUE

\* vcf_in.header().has_format("AD")
has_format_AD == file.has_ad

\* The VCF file has been opened (n opens so far) with the sample filter.
prepare_vcf_opened_(n, vcf_in) ==
    IF vcf_in.err.error # "none" THEN Prepared(<<>>, NoGenerator, n, vcf_in.err)
    ELSE IF ~ has_format_AD THEN Prepared(<<>>, NoGenerator, n, Error("MissingAD"))
    ELSE make_generator(get_sample_names(vcf_in.sample_filter), n, "vcf", vcf_in.sample_filter)

prepare_data_vcf_(m) ==
    IF ~ not_yet_prepared(m) THEN Throw(m, Error("InternalError"))
    ELSE IF value.filter_samples_include_ # <<>>
    THEN prepare_vcf_opened_(m.opened + 1,
            VcfInputIterator(TRUE, get_sample_name_list(value.filter_samples_include_), FALSE))
    ELSE IF value.filter_samples_exclude_ # <<>>
    THEN prepare_vcf_opened_(m.opened + 1,
            VcfInputIterator(TRUE, get_sample_name_list(value.filter_samples_exclude_), TRUE))
    ELSE prepare_vcf_opened_(m.opened + 1, VcfInputIterator(FALSE, <<>>, FALSE))

\* Mutation: the check accepts a command line without an input file.
input_file_count_above_one(is_pileup, is_sync, is_vcf) == is_pileup + is_sync + is_vcf > 1

\* Mutation: the check only asks for at least one input file.
input_file_count_zero(is_pileup, is_sync, is_vcf) == is_pileup + is_sync + is_vcf = 0

\* Check that we have exactly one input file type.
input_file_count_invalid(is_pileup, is_sync, is_vcf) == is_pileup + is_sync + is_vcf # 1

\* Mutation: the data is prepared anew in every call.
already_prepared_never(m) == FALSE

\* Nothing to be done. We already prepared the data.
already_prepared(m) == m.generator_.set \/ m.sample_names_ # <<>>

\* Mutation: the sample name prefix is accepted for every format.
sample_name_prefix_accepted(is_pileup, is_sync) == FALSE

\* A sample name prefix is only for the file types without sample names.
sample_name_prefix_invalid(is_pileup, is_sync) ==
    is_set("sample_name_prefix_") /\ is_pileup = 0 /\ is_sync = 0

prepare_data_(m) ==
    LET is_pileup == IF is_set("pileup_file_") THEN 1 ELSE 0
        is_sync   == IF is_set("sync_file_") THEN 1 ELSE 0
        is_vcf    == IF is_set("vcf_file_") THEN 1 ELSE 0
        a == IF is_pileup = 1 THEN prepare_data_pileup_(m) ELSE m
        b == IF ~ Failed(a) /\ is_sync = 1 THEN prepare_data_sync_(a) ELSE a
        c == IF ~ Failed(b) /\ is_vcf = 1 THEN prepare_data_vcf_(b) ELSE b
    IN  IF already_prepared(m) THEN m
        ELSE IF input_file_count_invalid(is_pileup, is_sync, is_vcf)
        THEN Throw(m, Error("ExactlyOneInput"))
        ELSE IF sample_name_prefix_invalid(is_pileup, is_sync)
        THEN Throw(m, Error("SampleNamePrefix"))
        ELSE c

-----------------------------------------------------------------------------
(* Sliding windows *)

NoWindow ==
    [ active |-> FALSE, flavor |-> "none", width |-> 0, stride |-> 0,
      chromosome |-> <<>>, start |-> 0, buf |-> <<>> ]

\* Mutation: every Variant is reported on the same chromosome.
chromosome_function_constant(variant) == << >>

\* The conversion functions installed in the settings of the window iterator.
chromosome_function(variant) == variant.chromosome

\* Mutation: the base count windows are given no samples.
entry_input_function_no_samples(flavor, variant) ==
    IF flavor = "variant" THEN variant ELSE << >>

\* Mutation: the position is handed to the window iterator 0-based.
position_function_zero_based(variant) == variant.position - 1

position_function(variant) == variant.position

entry_input_function(flavor, variant) ==
    IF flavor = "variant" THEN variant ELSE variant.samples

\* Mutation: a stride of 0 moves the window by one position.
effective_stride_one(width, stride) == IF stride = 0 THEN 1 ELSE stride

\* A stride of 0 stands for the width.
effective_stride(width, stride) == IF stride = 0 THEN width ELSE stride

Max(a, b) == IF a >= b THEN a ELSE b

\* Mutation: the windows are taken one after the other from position 1.
first_start_at_least_dense(x, stride) == 1

\* The smallest window start 1 + k * stride (k >= 0) that is at least x.
first_start_at_least(x, stride) ==
    IF x <= 1 THEN 1 ELSE 1 + (((x - 1) + (stride - 1)) \div stride) * stride

\* The start of the next window: the first start after the current window (the
\* first start of all on a new chromosome) whose window holds a Variant.
\* Variants before it are dropped from the buffer.
RECURSIVE find_window(_, _, _, _, _)
find_window(w, start_chr, buf, it, acc) ==
    IF buf = <<>>
    THEN LET r == generator_get([ generator_ EXCEPT !.it = it ])
         IN  IF ~ r.found
             THEN [ found |-> FALSE, chromosome |-> start_chr[2], start |-> start_chr[1],
                    buf |-> <<>>, it |-> <<>>, acc |-> counted(acc, r) ]
             ELSE find_window(w, start_chr, << r.variant >>, r.it, counted(acc, r))
    ELSE LET v == Head(buf)
             stride == effective_stride(w.width, w.stride)
             same == start_chr[1] > 0 /\ chromosome_function(v) = start_chr[2]
             lower == IF same THEN start_chr[1] + stride ELSE 1
             cand == Max(lower, first_start_at_least(position_function(v) - w.width + 1, stride))
         IN  IF same /\ position_function(v) < lower
             THEN find_window(w, start_chr, Tail(buf), it, acc)
             ELSE IF cand <= position_function(v)
             THEN [ found |-> TRUE, chromosome |-> chromosome_function(v), start |-> cand,
                    buf |-> buf, it |-> it, acc |-> acc ]
             ELSE find_window(w, start_chr, Tail(buf), it, acc)

\* Read on until a Variant past the window (or on another chromosome) or the
\* end of the stream is seen.
RECURSIVE fill_window(_, _, _, _, _)
fill_window(chr, last, buf, it, acc) ==
    IF /\ buf # <<>>
       /\ \/ chromosome_function(buf[Len(buf)]) # chr
          \/ position_function(buf[Len(buf)]) > last
    THEN [ buf |-> buf, it |-> it, acc |-> acc ]
    ELSE LET r == generator_get([ generator_ EXCEPT !.it = it ])
         IN  IF ~ r.found THEN [ buf |-> buf, it |-> <<>>, acc |-> counted(acc, r) ]
             ELSE fill_window(chr, last, Append(buf, r.variant), r.it, counted(acc, r))

\* The entries of the window [first, last] on chr among the buffered Variants.
RECURSIVE window_entries(_, _, _, _, _)
window_entries(flavor, chr, first, last, buf) ==
    IF buf = <<>> THEN <<>>
    ELSE LET v == Head(buf)
             rest == window_entries(flavor, chr, first, last, Tail(buf))
         IN  IF /\ chromosome_function(v) = chr
                /\ first <= position_function(v)
                /\ position_function(v) <= last
             THEN << entry_input_function(flavor, v) >> \o rest
             ELSE rest

\* The whole sequence of windows that the window iterator w emits from the
\* window that starts at start_chr on, over the buffer and the rest of the input.
RECURSIVE build_windows(_, _, _, _)
build_windows(w, start_chr, buf, it) ==
    LET at == find_window(w, start_chr, buf, it, NoCounts)
        full == fill_window(at.chromosome, at.start + w.width - 1, at.buf, at.it, NoCounts)
    IN  IF ~ at.found THEN << >>
        ELSE << [ chromosome |-> at.chromosome, first |-> at.start,
                  last |-> at.start + w.width - 1,
                  entries |-> window_entries(w.flavor, at.chromosome, at.start,
                                             at.start + w.width - 1, full.buf) ] >>
             \o build_windows(w, << at.start, at.chromosome >>, full.buf, full.it)

-----------------------------------------------------------------------------
(* The handles on the input and the read-ahead of the reader: the steps of a  *)
(* prepare function one by one, with the workers of the reader's thread pool  *)
(* running in between                                                         *)

\* 1: the iterator of the first open; 2: the iterator of the second open, with
\* the sample filter; 3: the copy that the lambda of the generator captures.
Handles == 1..3

NoAdapter ==
    [ step |-> "closed", handle |-> [ h \in Handles |-> "none" ], local |-> 0,
      captured |-> 0, stream |-> 0, tasks |-> {}, parsed |-> {}, submitted |-> 0,
      pos |-> 0, dangling |-> FALSE ]

\* Mutation: a task of the thread pool works on the members of the iterator
\* that submitted it.
task_state_of_handle(h) == h

\* The state that a task of the thread pool works on: 0 for copies of its own
\* of the members of the iterator, otherwise the handle whose members it uses.
task_state(h) == 0

\* Handle h submits the tasks that pre-parse the records up to MaxReadAhead
\* ahead of the position of the stream.
read_ahead(a, h) ==
    [ a EXCEPT
        !.tasks = @ \cup { [ stream |-> a.stream, index |-> i, state |-> task_state(h) ]
                            : i \in (a.submitted + 1)..Min({ Len(file.records),
                                                             a.pos + MaxReadAhead }) },
        !.submitted = Max(@, Min({ Len(file.records), a.pos + MaxReadAhead })) ]

\* The sample filter of the prepare function fails, or the reader of the VCF
\* file is refused the listed names.
sample_filter_fails ==
    /\ has_sample_filter
    /\ IF is_set("vcf_file_")
       THEN VcfInputIterator(TRUE, get_sample_name_list(
                IF value.filter_samples_include_ # << >>
                THEN value.filter_samples_include_
                ELSE value.filter_samples_exclude_), FALSE).err.error # "none"
       ELSE get_sample_filter(dummy_sample_names(file.smp_cnt)).err.error # "none"

\* The file is opened: the local iterator of the prepare function.
open_input ==
    /\ pc = "run"
    /\ adapter.step = "closed"
    /\ Cardinality({ o \in InputFileOptions : is_set(o) }) = 1
    /\ file.records # << >>
    /\ is_set("vcf_file_") => ~ sample_filter_fails
    /\ adapter' = read_ahead([ adapter EXCEPT !.step = "opened", !.handle[1] = "alive",
                                              !.local = 1, !.stream = 1 ], 1)
    /\ opened' = opened + 1
    /\ UNCHANGED << pc, option, excludes, count, value, file, fs, sample_names_, generator_,
                    ret, calls, range, window, windows, ended, yielded, conversions, pulls >>

\* The sample filter throws: the prepare function is left, and its local
\* iterator goes out of scope.
throw_in_prepare ==
    /\ pc = "run"
    /\ adapter.step = "opened"
    /\ ~ is_set("vcf_file_")
    /\ sample_filter_fails
    /\ adapter' = [ adapter EXCEPT !.step = "failed", !.handle[1] = "destroyed", !.local = 0 ]
    /\ UNCHANGED << pc, option, excludes, count, value, file, fs, sample_names_, generator_,
                    ret, calls, range, window, windows, ended, opened, yielded, conversions, pulls >>

\* Pileup and sync with a sample filter: the local iterator is assigned a new
\* iterator, opened on the file with the filter; the first one is destroyed.
reopen_with_filter ==
    /\ pc = "run"
    /\ adapter.step = "opened"
    /\ ~ is_set("vcf_file_")
    /\ has_sample_filter
    /\ ~ sample_filter_fails
    /\ adapter' = read_ahead([ adapter EXCEPT !.step = "reopened", !.handle[1] = "destroyed",
                                              !.handle[2] = "alive", !.local = 2,
                                              !.stream = 2, !.parsed = {},
                                              !.submitted = 0 ], 2)
    /\ opened' = opened + 1
    /\ UNCHANGED << pc, option, excludes, count, value, file, fs, sample_names_, generator_,
                    ret, calls, range, window, windows, ended, yielded, conversions, pulls >>

\* The lambda of the generator captures the local iterator by copy.
capture_iterator ==
    /\ pc = "run"
    /\ \/ adapter.step = "reopened"
       \/ adapter.step = "opened" /\ (is_set("vcf_file_") \/ ~ has_sample_filter)
    /\ adapter' = [ adapter EXCEPT !.step = "captured", !.handle[3] = "alive",
                                   !.captured = 3 ]
    /\ UNCHANGED << pc, option, excludes, count, value, file, fs, sample_names_, generator_,
                    ret, calls, range, window, windows, ended, opened, yielded, conversions, pulls >>

\* The prepare function returns: its local iterator goes out of scope.
end_of_prepare ==
    /\ pc = "run"
    /\ adapter.step = "captured"
    /\ adapter' = [ adapter EXCEPT !.step = "returned", !.handle[adapter.local] = "destroyed",
                                   !.local = 0 ]
    /\ UNCHANGED << pc, option, excludes, count, value, file, fs, sample_names_, generator_,
                    ret, calls, range, window, windows, ended, opened, yielded, conversions, pulls >>

\* A worker of the thread pool runs a task. A task that uses the members of a
\* destroyed iterator reads freed memory: it may or may not deliver a record.
worker_parse ==
    /\ pc = "run"
    /\ \E t \in adapter.tasks :
        IF t.state # 0 /\ adapter.handle[t.state] = "destroyed"
        THEN \E delivered \in BOOLEAN :
                adapter' = [ adapter EXCEPT
                    !.tasks = @ \ { t }, !.dangling = TRUE,
                    !.parsed = IF delivered /\ t.stream = adapter.stream
                               THEN @ \cup { t.index } ELSE @ ]
        ELSE adapter' = [ adapter EXCEPT
                    !.tasks = @ \ { t },
                    !.parsed = IF t.stream = adapter.stream THEN @ \cup { t.index } ELSE @ ]
    /\ UNCHANGED << pc, option, excludes, count, value, file, fs, sample_names_, generator_,
                    ret, calls, range, window, windows, ended, opened, yielded, conversions, pulls >>

\* The consumer pulls a record from the captured iterator, which waits for the
\* task of its next record, converts it, and reads further ahead.
pull_record ==
    /\ pc = "run"
    /\ adapter.step = "returned"
    /\ adapter.handle[adapter.captured] = "alive"
    /\ adapter.pos < Len(file.records)
    /\ (adapter.pos + 1) \in adapter.parsed
    /\ yielded' = Append(yielded,
                    convert_to_variant([ NoGenerator EXCEPT !.sample_filter = all_samples ],
                                       file.records[adapter.pos + 1]))
    /\ adapter' = read_ahead([ adapter EXCEPT !.pos = @ + 1 ], adapter.captured)
    /\ conversions' = conversions + 1
    /\ pulls' = pulls + 1
    /\ UNCHANGED << pc, option, excludes, count, value, file, fs, sample_names_, generator_,
                    ret, calls, range, window, windows, ended, opened >>

-----------------------------------------------------------------------------
(* The command line parse and the public interface *)

DefaultValues ==
    [ sample_name_prefix_ |-> <<>>, filter_region_ |-> <<>>,
      filter_samples_include_ |-> <<>>, filter_samples_exclude_ |-> <<>>,
      window_width_ |-> 0, window_stride_ |-> 0 ]

NoReturn == [ fn |-> "none", err |-> NoError, names |-> <<>> ]

\* The values that a command line gives to the options in given.
BoundValues(given, prefix, region, include, exclude, width, stride) ==
    [ sample_name_prefix_     |-> IF "sample_name_prefix_" \in given THEN prefix ELSE <<>>,
      filter_region_          |-> IF "filter_region_" \in given THEN region ELSE <<>>,
      filter_samples_include_ |-> IF "filter_samples_include_" \in given THEN include ELSE <<>>,
      filter_samples_exclude_ |-> IF "filter_samples_exclude_" \in given THEN exclude ELSE <<>>,
      window_width_           |-> IF "window_width_" \in given THEN width ELSE 0,
      window_stride_          |-> IF "window_stride_" \in given THEN stride ELSE 0 ]

\* Two options of the command line that exclude each other.
excludes_violated(given) == \E p \in excludes : p[1] \in given /\ p[2] \in given

\* The values of the command lines explored from the setup phase.
ParsePrefixes == { << "1" >> }
ParseRegions == { << "A" >>, << ":" >> }
ParseLists == { << "1" >>, << "2", ",", "1" >>, << "9" >> }
ParseWidths == { 2 }
ParseStrides == { 1 }

\* CLI parse: binds the values, then checks the exclusions; the command only
\* runs when the command line is accepted.
Parse ==
    /\ pc = "setup"
    /\ \E given \in SUBSET option, prefix \in ParsePrefixes, region \in ParseRegions,
          include \in ParseLists, exclude \in ParseLists,
          width \in ParseWidths, stride \in ParseStrides :
        /\ count' = given
        /\ value' = BoundValues(given, prefix, region, include, exclude, width, stride)
        /\ pc' = IF excludes_violated(given) THEN "exit" ELSE "run"
        /\ ret' = IF excludes_violated(given)
                  THEN [ fn |-> "parse", err |-> Error("ExcludesError"), names |-> <<>> ]
                  ELSE ret
    /\ UNCHANGED << option, excludes, file, fs, sample_names_, generator_, opened,
                    yielded, calls, range, window, windows,
                    conversions, pulls, ended, adapter >>

sample_names ==
    /\ pc = "run"
    /\ calls < MaxCalls
    /\ LET m == prepare_data_(Members)
       IN  /\ sample_names_' = m.sample_names_
           /\ generator_' = m.generator_
           /\ opened' = m.opened
           /\ ret' = [ fn |-> "sample_names", err |-> m.err,
                       names |-> IF Failed(m) THEN <<>> ELSE m.sample_names_ ]
    /\ calls' = calls + 1
    /\ UNCHANGED << pc, option, excludes, count, value, file, fs, yielded, range,
                    window, windows,
                    conversions, pulls, ended, adapter >>

get_iterator ==
    /\ pc = "run"
    /\ calls < MaxCalls
    /\ LET m == prepare_data_(Members)
       IN  /\ sample_names_' = m.sample_names_
           /\ generator_' = m.generator_
           /\ opened' = m.opened
           /\ ret' = [ fn |-> "get_iterator", err |-> m.err, names |-> <<>> ]
           /\ range' = (range \/ ~ Failed(m))
    /\ calls' = calls + 1
    /\ UNCHANGED << pc, option, excludes, count, value, file, fs, yielded,
                    window, windows,
                    conversions, pulls, ended, adapter >>

\* The consumer advances the range: one call of the generator function.
iterator_next ==
    /\ pc = "run"
    /\ range
    /\ generator_.set
    /\ pulls < MaxPulls
    /\ LET r == generator_get(generator_)
       IN  /\ generator_' = [ generator_ EXCEPT !.it = r.it ]
           /\ yielded' = IF r.found THEN Append(yielded, r.variant) ELSE yielded
           /\ conversions' = counted(Counts, r).conversions
           /\ pulls' = counted(Counts, r).pulls
           /\ ended' = counted(Counts, r).ended
    /\ UNCHANGED << pc, option, excludes, count, value, file, fs, sample_names_, opened,
                    ret, calls, range, window, windows, adapter >>

\* Both window getters: the settings, prepare_data_(), the window iterator.
\* The window iterator asks for a width above 0.
sliding_window_iterator(fn, flavor) ==
    /\ pc = "run"
    /\ calls < MaxCalls
    /\ LET m == prepare_data_(Members)
           bad_width == ~ Failed(m) /\ value.window_width_ = 0
       IN  /\ sample_names_' = m.sample_names_
           /\ generator_' = m.generator_
           /\ opened' = m.opened
           /\ ret' = [ fn |-> fn,
                       err |-> IF bad_width THEN Error("InvalidWindowWidth") ELSE m.err,
                       names |-> <<>> ]
           /\ window' = IF Failed(m) \/ bad_width THEN window
                        ELSE [ active |-> TRUE, flavor |-> flavor,
                               width |-> value.window_width_,
                               stride |-> value.window_stride_,
                               chromosome |-> <<>>, start |-> 0, buf |-> <<>> ]
    /\ calls' = calls + 1
    /\ UNCHANGED << pc, option, excludes, count, value, file, fs, yielded, range, windows,
                    conversions, pulls, ended, adapter >>

get_base_count_sliding_window_iterator ==
    sliding_window_iterator("get_base_count_sliding_window_iterator", "base_count")

get_variant_sliding_window_iterator ==
    sliding_window_iterator("get_variant_sliding_window_iterator", "variant")

\* The consumer advances the window iterator: the next window, if there is one.
window_next ==
    /\ pc = "run"
    /\ window.active
    /\ window.buf # <<>> \/ generator_.it # <<>>
    /\ LET at == find_window(window, << window.start, window.chromosome >>,
                             window.buf, generator_.it, Counts)
           last == at.start + window.width - 1
           full == fill_window(at.chromosome, last, at.buf, at.it, at.acc)
       IN  IF ~ at.found
           THEN /\ window' = [ window EXCEPT !.buf = <<>> ]
                /\ generator_' = [ generator_ EXCEPT !.it = <<>> ]
                /\ windows' = windows
                /\ conversions' = at.acc.conversions
                /\ pulls' = at.acc.pulls
                /\ ended' = at.acc.ended
           ELSE /\ window' = [ window EXCEPT !.chromosome = at.chromosome,
                                             !.start = at.start, !.buf = full.buf ]
                /\ generator_' = [ generator_ EXCEPT !.it = full.it ]
                /\ windows' = Append(windows,
                                [ chromosome |-> at.chromosome, first |-> at.start,
                                  last |-> last,
                                  entries |-> window_entries(window.flavor, at.chromosome,
                                                             at.start, last, full.buf) ])
                /\ conversions' = full.acc.conversions
                /\ pulls' = full.acc.pulls
                /\ ended' = full.acc.ended
    /\ UNCHANGED << pc, option, excludes, count, value, file, fs, sample_names_, opened,
                    ret, yielded, calls, range, adapter >>

-----------------------------------------------------------------------------
(* Specification: the whole life of one options object *)

\* Input files: an empty file, and files of two samples with sites on one or
\* two chromosomes; for VCF with or without the AD header field, and with a
\* record that is not usable.
SpecFiles ==
    { [ smp_cnt |-> 0, records |-> <<>>, has_ad |-> TRUE ],
      [ smp_cnt |-> 2, records |-> << Record(<< "A" >>, 1, TRUE), Record(<< "A" >>, 3, TRUE) >>,
        has_ad |-> TRUE ],
      [ smp_cnt |-> 2, records |-> << Record(<< "A" >>, 2, FALSE), Record(<< "B" >>, 1, TRUE) >>,
        has_ad |-> TRUE ],
      [ smp_cnt |-> 2, records |-> << Record(<< "A" >>, 1, TRUE) >>, has_ad |-> FALSE ] }

NoFiles == << >>

Init ==
    /\ pc = "setup"
    /\ option = {}
    /\ excludes = {}
    /\ count = {}
    /\ value = DefaultValues
    /\ file \in SpecFiles
    /\ fs = NoFiles
    /\ sample_names_ = <<>>
    /\ generator_ = NoGenerator
    /\ opened = 0
    /\ ret = NoReturn
    /\ yielded = <<>>
    /\ calls = 0
    /\ range = FALSE
    /\ window = NoWindow
    /\ windows = <<>>
    /\ conversions = 0
    /\ pulls = 0
    /\ ended = FALSE
    /\ adapter = NoAdapter

Next ==
    \/ add_frequency_input_opts_to_app
    \/ add_pileup_input_opt_to_app
    \/ add_sync_input_opt_to_app
    \/ add_vcf_input_opt_to_app
    \/ add_sample_name_prefix_opt_to_app
    \/ add_filter_opts_to_app
    \/ add_sliding_window_opts_to_app
    \/ Parse
    \/ sample_names
    \/ get_iterator
    \/ iterator_next
    \/ get_base_count_sliding_window_iterator
    \/ get_variant_sliding_window_iterator
    \/ window_next

Spec == Init /\ [][Next]_vars

-----------------------------------------------------------------------------
(* Specification: sample name filtering, from the parsed command lines *)

\* The options as add_frequency_input_opts_to_app( sub, true, true ) adds them.
FrequencyInputOptions == InputFileOptions \cup { "sample_name_prefix_" } \cup FilterOptions

ListAlphabet == { "1", "2", "," }

SampleLists == StringsUpTo(ListAlphabet, MaxListLen) \ { <<>> }

\* A file of n samples and k sites; a file without sites has no samples to count.
SampleFiles ==
    { [ smp_cnt |-> n, records |-> [ i \in 1..k |-> Record(<< "A" >>, i, TRUE) ],
        has_ad |-> TRUE ] : n \in 1..MaxSamples, k \in 1..MaxRecords }
    \cup { [ smp_cnt |-> 0, records |-> <<>>, has_ad |-> TRUE ] }

\* No list file, or a file named "1" that lists the sample name "2".
SampleFileSystems == { NoFiles, [ path \in { << "1" >> } |-> << << "2" >> >> ] }

InitSamples ==
    /\ pc = "run"
    /\ option = FrequencyInputOptions
    /\ excludes = input_file_excludes \cup filter_samples_excludes
    /\ \E format \in InputFileOptions,
          prefix \in SUBSET { "sample_name_prefix_" },
          filter \in { {}, { "filter_samples_include_" }, { "filter_samples_exclude_" } } :
        /\ format = "vcf_file_" => prefix = {}
        /\ count = { format } \cup prefix \cup filter
    /\ \E list \in SampleLists :
        value = BoundValues(count, << "1" >>, <<>>, list, list, 0, 0)
    /\ file \in SampleFiles
    /\ fs \in SampleFileSystems
    /\ sample_names_ = <<>>
    /\ generator_ = NoGenerator
    /\ opened = 0
    /\ ret = NoReturn
    /\ yielded = <<>>
    /\ calls = 0
    /\ range = FALSE
    /\ window = NoWindow
    /\ windows = <<>>
    /\ conversions = 0
    /\ pulls = 0
    /\ ended = FALSE
    /\ adapter = NoAdapter

NextSamples ==
    \/ sample_names
    \/ get_iterator
    \/ iterator_next

SpecSamples == InitSamples /\ [][NextSamples]_vars

-----------------------------------------------------------------------------
(* Specification: sliding windows over sorted files *)

Chromosomes == << << "A" >>, << "B" >> >>

Sites == (1..Len(Chromosomes)) \X (1..MaxPos)

SiteBefore(a, b) == a[1] < b[1] \/ (a[1] = b[1] /\ a[2] < b[2])

\* The sorted files of at most MaxRecords sites: the chromosomes in order, and
\* the positions increasing on each chromosome.
SortedSites ==
    UNION { { s \in [1..k -> Sites] : \A i \in 1..(k - 1) : SiteBefore(s[i], s[i + 1]) }
            : k \in 0..MaxRecords }

FileOfSites(s) ==
    [ smp_cnt |-> 1,
      records |-> [ i \in 1..Len(s) |-> Record(Chromosomes[s[i][1]], s[i][2], TRUE) ],
      has_ad |-> TRUE ]

\* The file of the sites 1, 5, 10, 15, 21 on one chromosome, read with width 10.
ExampleSites == << 1, 5, 10, 15, 21 >>

ExampleFile ==
    [ smp_cnt |-> 1,
      records |-> [ i \in 1..Len(ExampleSites) |-> Record(<< "A" >>, ExampleSites[i], TRUE) ],
      has_ad |-> TRUE ]

\* The sites (A,9), (A,11), (B,1), read with width 10.
TransitionSites == << << 1, 9 >>, << 1, 11 >>, << 2, 1 >> >>

TransitionFile ==
    [ smp_cnt |-> 1,
      records |-> [ i \in 1..Len(TransitionSites) |->
                        Record(Chromosomes[TransitionSites[i][1]], TransitionSites[i][2], TRUE) ],
      has_ad |-> TRUE ]

\* Two sites that are far apart on one chromosome, read with width 10.
GapSites == << 1, 1000000 >>

GapFile ==
    [ smp_cnt |-> 1,
      records |-> [ i \in 1..Len(GapSites) |-> Record(<< "A" >>, GapSites[i], TRUE) ],
      has_ad |-> TRUE ]

InitWindow ==
    /\ pc = "run"
    /\ option = InputFileOptions \cup WindowOptions
    /\ excludes = input_file_excludes
    /\ \E format \in InputFileOptions, stride \in SUBSET { "window_stride_" } :
        count = { format, "window_width_" } \cup stride
    /\ \/ /\ file \in { FileOfSites(s) : s \in SortedSites }
          /\ \E width \in 1..MaxWidth, stride \in 1..(MaxWidth + 1) :
                value = BoundValues(count, <<>>, <<>>, <<>>, <<>>, width, stride)
       \/ /\ file \in { ExampleFile, TransitionFile, GapFile }
          /\ value = BoundValues(count, <<>>, <<>>, <<>>, <<>>, 10, 10)
    /\ fs = NoFiles
    /\ sample_names_ = <<>>
    /\ generator_ = NoGenerator
    /\ opened = 0
    /\ ret = NoReturn
    /\ yielded = <<>>
    /\ calls = 0
    /\ range = FALSE
    /\ window = NoWindow
    /\ windows = <<>>
    /\ conversions = 0
    /\ pulls = 0
    /\ ended = FALSE
    /\ adapter = NoAdapter

NextWindow ==
    \/ get_base_count_sliding_window_iterator
    \/ get_variant_sliding_window_iterator
    \/ window_next

SpecWindow == InitWindow /\ [][NextWindow]_vars

-----------------------------------------------------------------------------
(* Specification: the region filter, from the parsed command lines *)

\* The regions of the command lines: a chromosome, a position on it, or an
\* interval of positions written with "-" or "..".
Regions ==
    { [ chromosome |-> Chromosomes[c], form |-> "chromosome", start |-> 0, end |-> 0 ]
        : c \in 1..Len(Chromosomes) }
    \cup { [ chromosome |-> Chromosomes[c], form |-> "position", start |-> p, end |-> p ]
        : c \in 1..Len(Chromosomes), p \in 1..MaxRegionPos }
    \cup { [ chromosome |-> Chromosomes[c], form |-> f, start |-> iv[1], end |-> iv[2] ]
        : c \in 1..Len(Chromosomes), f \in { "dash", "dots" },
          iv \in { q \in (1..MaxRegionPos) \X (1..MaxRegionPos) : q[1] <= q[2] } }

\* The text of a region on the command line.
RegionText(r) ==
    IF r.form = "chromosome" THEN r.chromosome
    ELSE IF r.form = "position" THEN r.chromosome \o << ":" >> \o to_string(r.start)
    ELSE IF r.form = "dash"
    THEN r.chromosome \o << ":" >> \o to_string(r.start) \o << "-" >> \o to_string(r.end)
    ELSE r.chromosome \o << ":" >> \o to_string(r.start) \o << ".", "." >> \o to_string(r.end)

\* The region texts: none, the well-formed ones, and one that is malformed.
RegionTexts == { << >>, << ":" >> } \cup { RegionText(r) : r \in Regions }

RegionSites == (1..Len(Chromosomes)) \X (1..MaxRegionPos)

\* The sorted files of at most MaxRecords sites with positions up to MaxRegionPos.
RegionFiles ==
    { FileOfSites(s) : s \in
        UNION { { q \in [1..k -> RegionSites] : \A i \in 1..(k - 1) : SiteBefore(q[i], q[i + 1]) }
                : k \in 0..MaxRecords } }

InitRegion ==
    /\ pc = "run"
    /\ option = FrequencyInputOptions
    /\ excludes = input_file_excludes \cup filter_samples_excludes
    /\ \E format \in InputFileOptions, text \in RegionTexts,
          given \in SUBSET { "filter_region_" } :
        /\ text # << >> => given # {}
        /\ count = { format } \cup given
        /\ value = BoundValues(count, << >>, text, << >>, << >>, 0, 0)
    /\ file \in RegionFiles
    /\ fs = NoFiles
    /\ sample_names_ = <<>>
    /\ generator_ = NoGenerator
    /\ opened = 0
    /\ ret = NoReturn
    /\ yielded = <<>>
    /\ calls = 0
    /\ range = FALSE
    /\ window = NoWindow
    /\ windows = <<>>
    /\ conversions = 0
    /\ pulls = 0
    /\ ended = FALSE
    /\ adapter = NoAdapter

NextRegion ==
    \/ sample_names
    \/ get_iterator
    \/ iterator_next

SpecRegion == InitRegion /\ [][NextRegion]_vars

-----------------------------------------------------------------------------
(* Specification: the records of a VCF file *)

\* The VCF files of two samples and at most MaxRecords records, at the
\* positions 1, 2, ... of one chromosome: each record a SNP or not, with 1 to
\* MaxAlternatives alternative alleles, with or without the AD field.
VcfRecordKinds == BOOLEAN \X (1..MaxAlternatives) \X BOOLEAN

VcfFiles ==
    { [ smp_cnt |-> 2,
        records |-> [ i \in 1..Len(kinds) |->
                        VcfRecord(<< "A" >>, i, kinds[i][1], kinds[i][2], kinds[i][3]) ],
        has_ad |-> TRUE ]
      : kinds \in UNION { [1..k -> VcfRecordKinds] : k \in 0..MaxRecords } }

InitVcf ==
    /\ pc = "run"
    /\ option = FrequencyInputOptions
    /\ excludes = input_file_excludes \cup filter_samples_excludes
    /\ \E filter \in { {}, { "filter_samples_include_" }, { "filter_samples_exclude_" } } :
        /\ count = { "vcf_file_" } \cup filter
        /\ value = BoundValues(count, << >>, << >>, << "1" >>, << "1" >>, 0, 0)
    /\ file \in VcfFiles
    /\ fs = NoFiles
    /\ sample_names_ = <<>>
    /\ generator_ = NoGenerator
    /\ opened = 0
    /\ ret = NoReturn
    /\ yielded = <<>>
    /\ calls = 0
    /\ range = FALSE
    /\ window = NoWindow
    /\ windows = <<>>
    /\ conversions = 0
    /\ pulls = 0
    /\ ended = FALSE
    /\ adapter = NoAdapter

NextVcf ==
    \/ sample_names
    \/ get_iterator
    \/ iterator_next

SpecVcf == InitVcf /\ [][NextVcf]_vars

-----------------------------------------------------------------------------
(* Specification: the read-ahead of the reader during and after a preparation *)

InitReadAhead ==
    /\ pc = "run"
    /\ option = FrequencyInputOptions
    /\ excludes = input_file_excludes \cup filter_samples_excludes
    /\ \E format \in InputFileOptions,
          filter \in { {}, { "filter_samples_include_" }, { "filter_samples_exclude_" } } :
        /\ count = { format } \cup filter
        /\ value = BoundValues(count, << >>, << >>, << "2" >>, << "2" >>, 0, 0)
    /\ file \in SampleFiles
    /\ fs = NoFiles
    /\ sample_names_ = <<>>
    /\ generator_ = NoGenerator
    /\ opened = 0
    /\ ret = NoReturn
    /\ yielded = <<>>
    /\ calls = 0
    /\ range = FALSE
    /\ window = NoWindow
    /\ windows = <<>>
    /\ conversions = 0
    /\ pulls = 0
    /\ ended = FALSE
    /\ adapter = NoAdapter

NextReadAhead ==
    \/ open_input
    \/ throw_in_prepare
    \/ reopen_with_filter
    \/ capture_iterator
    \/ end_of_prepare
    \/ worker_parse
    \/ pull_record

SpecReadAhead == InitReadAhead /\ [][NextReadAhead]_vars

-----------------------------------------------------------------------------
(* Properties *)

\* The number of input file options that are set.
NumFormats == Cardinality({ o \in InputFileOptions : is_set(o) })

Getters ==
    { "sample_names", "get_iterator", "get_base_count_sliding_window_iterator",
      "get_variant_sliding_window_iterator" }

\* The errors that stand for a rejected configuration.
ConfigErrors == { "ExcludesError", "ExactlyOneInput" }

\* No stream has been produced or handed out.
NoStream == ~ generator_.set /\ sample_names_ = <<>> /\ ~ range /\ ~ window.active

\* C1: with zero, two or three of the input options pileup, sync, vcf set,
\* no stream is ever produced, and every call that prepares the data (and the
\* parse of the command line, when it rejects it) ends in a configuration
\* error; a call succeeds only with exactly one of them set.
C1_ExactlyOneFormat ==
    /\ NumFormats # 1 =>
        /\ NoStream
        /\ ret.fn # "none" => ret.err.error \in ConfigErrors
    /\ (ret.fn \in Getters /\ ret.err.error = "none") => NumFormats = 1

C1_Witness ==
    /\ pc = "run"
    /\ NumFormats = 2
    /\ ret.fn = "get_iterator"
    /\ ret.err.error = "ExactlyOneInput"

\* C2: no file has been opened and nothing has been yielded (no Variant, no
\* window) in any state in which the number of selected formats is not 1.
C2_CheckBeforeOpen ==
    (opened > 0 \/ yielded # <<>> \/ windows # <<>>) => NumFormats = 1

C2_Witness ==
    /\ pc = "run"
    /\ NumFormats = 3
    /\ ret.fn = "sample_names"
    /\ ret.err.error = "ExactlyOneInput"
    /\ opened = 0

\* C3: when both the include and the exclude list are given, the command line
\* is rejected with a configuration error, whatever the input format: no file
\* is opened and no stream is prepared from one of the two lists.
C3_IncludeExcludeExclusive ==
    (value.filter_samples_include_ # <<>> /\ value.filter_samples_exclude_ # <<>>) =>
        /\ pc = "exit"
        /\ ret.err.error \in ConfigErrors
        /\ opened = 0
        /\ NoStream

C3_Witness ==
    /\ value.filter_samples_include_ # <<>>
    /\ value.filter_samples_exclude_ # <<>>
    /\ count \cap InputFileOptions = { "vcf_file_" }
    /\ pc = "exit"
    /\ ret.err.error = "ExcludesError"

\* The names of the samples of the input before filtering: the names of the
\* VCF header, or the prefix followed by the 1-based column.
ColumnName(i) == value.sample_name_prefix_ \o to_string(i)

RawSampleNames ==
    IF is_set("vcf_file_") THEN vcf_header_names
    ELSE [ i \in 1..file.smp_cnt |-> ColumnName(i) ]

\* The names of the include or exclude list that is given.
ActiveList ==
    get_sample_name_list(IF value.filter_samples_include_ # <<>>
                         THEN value.filter_samples_include_
                         ELSE value.filter_samples_exclude_)

AllKnown == Range(ActiveList) \subseteq Range(RawSampleNames)

NoDuplicates(s) == \A i, j \in 1..Len(s) : s[i] = s[j] => i = j

RECURSIVE IsSubsequence(_, _)
IsSubsequence(a, b) ==
    IF a = <<>> THEN TRUE
    ELSE IF b = <<>> THEN FALSE
    ELSE IF Head(a) = Head(b) THEN IsSubsequence(Tail(a), Tail(b))
    ELSE IsSubsequence(a, Tail(b))

\* C4: the sample names are always a subsequence of the unfiltered sample
\* names, in the order of the file, whatever the order and the repetitions of
\* the names in the include or exclude list.
C4_FilterOrderPreserving ==
    /\ IsSubsequence(sample_names_, RawSampleNames)
    /\ IsSubsequence(ret.names, RawSampleNames)

C4_Witness ==
    /\ value.filter_samples_include_ = << "2", ",", "1" >>
    /\ ret.fn = "sample_names"
    /\ ret.names = << << "1" >>, << "2" >> >>
    /\ generator_.set

\* C5: with a name in the active list that the input (a file that has sites)
\* does not have, every call of a getter ends in the error that names it, and
\* none returns names or a stream.
C5_UnknownSampleFails ==
    (has_sample_filter /\ ~ AllKnown /\ file.records # <<>> /\ ret.fn \in Getters) =>
        /\ ret.err.error = "InvalidSampleName"
        /\ ret.err.name \in Range(ActiveList) \ Range(RawSampleNames)
        /\ ~ range

\* C6: for pileup and sync, the k-th sample name is the prefix followed by the
\* 1-based column of the file that the k-th entry of every Variant comes from.
C6_NamesKeepOriginalIndex ==
    (is_set("pileup_file_") \/ is_set("sync_file_")) =>
        /\ \A k \in 1..Len(sample_names_) :
              \E i \in 1..file.smp_cnt : sample_names_[k] = ColumnName(i)
        /\ \A n \in 1..Len(yielded) :
              /\ Len(yielded[n].samples) = Len(sample_names_)
              /\ \A k \in 1..Len(sample_names_) :
                    sample_names_[k] = ColumnName(yielded[n].samples[k])

C6_Witness ==
    /\ is_set("pileup_file_")
    /\ value.sample_name_prefix_ = << "1" >>
    /\ value.filter_samples_exclude_ = << "1", "1" >>
    /\ sample_names_ = << << "1", "2" >> >>
    /\ yielded # <<>>

\* C7: every Variant that the stream yields has as many sample entries as
\* there are sample names, and sample_names() reports just these names.
C7_SampleCountMatches ==
    /\ \A n \in 1..Len(yielded) : Len(yielded[n].samples) = Len(sample_names_)
    /\ (ret.fn = "sample_names" /\ ret.err.error = "none") => ret.names = sample_names_

C7_Witness ==
    /\ is_set("vcf_file_")
    /\ has_sample_filter
    /\ file.smp_cnt = 2
    /\ Len(sample_names_) = 1
    /\ Len(yielded) = 2

\* C8: with an include list of known names, the sample names that
\* sample_names() returns are the raw names of the list, each once.
C8_IncludeExact ==
    (/\ value.filter_samples_include_ # <<>>
     /\ AllKnown
     /\ ret.fn = "sample_names"
     /\ ret.err.error = "none") =>
        /\ Range(ret.names) = Range(RawSampleNames) \cap Range(ActiveList)
        /\ NoDuplicates(ret.names)

C8_Witness ==
    /\ value.filter_samples_include_ = << "1", ",", "1" >>
    /\ file.smp_cnt = 2
    /\ ret.fn = "sample_names"
    /\ ret.names = << << "1" >> >>

\* C9: with an exclude list of known names, sample_names() returns the raw
\* names that are not in the list, each once; the call does not fail on a file
\* that has sites, also when the list excludes every sample.
C9_ExcludeExact ==
    (/\ value.filter_samples_exclude_ # <<>>
     /\ AllKnown
     /\ ret.fn = "sample_names") =>
        /\ file.records # <<>> => ret.err.error = "none"
        /\ ret.err.error = "none" =>
            /\ Range(ret.names) = Range(RawSampleNames) \ Range(ActiveList)
            /\ NoDuplicates(ret.names)
            /\ generator_.set

C9_Witness ==
    /\ value.filter_samples_exclude_ # <<>>
    /\ file.smp_cnt = 2
    /\ Range(RawSampleNames) \subseteq Range(ActiveList)
    /\ ret.fn = "sample_names"
    /\ ret.err.error = "none"
    /\ ret.names = <<>>
    /\ generator_.set

\* The positions of the sites of the file on chr within [first, last], in order.
RECURSIVE PositionsIn(_, _, _, _)
PositionsIn(records, chr, first, last) ==
    IF records = <<>> THEN <<>>
    ELSE LET r == Head(records)
             rest == PositionsIn(Tail(records), chr, first, last)
         IN  IF r.chromosome = chr /\ first <= r.position /\ r.position <= last
             THEN << r.position >> \o rest
             ELSE rest

\* The positions of the entries of a window of full Variants.
EntryPositions(w) == [ j \in 1..Len(w.entries) |-> w.entries[j].position ]

OneChromosome == \A i, j \in 1..Len(file.records) :
                    file.records[i].chromosome = file.records[j].chromosome

\* One window iterator has been made, and it has reached the end of the stream.
OneWindowIterator == calls = 1 /\ window.active

WindowsDone == window.buf = <<>> /\ generator_.it = <<>>

\* C10: with the stride equal to the width w, on one chromosome, every emitted
\* window is [1 + k*w, (k+1)*w] and holds just the sites of the file in it; the
\* windows come in increasing order, and at the end of the stream every site
\* is in exactly one of them. The sites 1, 5, 10, 15, 21 with width 10 give the
\* windows [1,10], [11,20], [21,30] with the sites {1,5,10}, {15}, {21}.
C10_WindowAssignment ==
    (/\ OneWindowIterator
     /\ OneChromosome
     /\ effective_stride(window.width, window.stride) = window.width) =>
        /\ \A i \in 1..Len(windows) :
            /\ (windows[i].first - 1) % window.width = 0
            /\ windows[i].last = windows[i].first + window.width - 1
            /\ Len(windows[i].entries) =
                    Len(PositionsIn(file.records, windows[i].chromosome,
                                    windows[i].first, windows[i].last))
            /\ window.flavor = "variant" =>
                    EntryPositions(windows[i]) =
                        PositionsIn(file.records, windows[i].chromosome,
                                    windows[i].first, windows[i].last)
            /\ windows[i].entries # <<>>
            /\ i > 1 => windows[i - 1].last < windows[i].first
        /\ WindowsDone =>
            \A r \in 1..Len(file.records) :
                Cardinality({ i \in 1..Len(windows) :
                                /\ windows[i].first <= file.records[r].position
                                /\ file.records[r].position <= windows[i].last }) = 1
        /\ (WindowsDone /\ file = ExampleFile /\ window.flavor = "variant") =>
            /\ [ i \in 1..Len(windows) |-> << windows[i].first, windows[i].last >> ]
                    = << << 1, 10 >>, << 11, 20 >>, << 21, 30 >> >>
            /\ [ i \in 1..Len(windows) |-> EntryPositions(windows[i]) ]
                    = << << 1, 5, 10 >>, << 15 >>, << 21 >> >>

C10_Witness ==
    /\ OneWindowIterator
    /\ WindowsDone
    /\ file = ExampleFile
    /\ window.flavor = "variant"
    /\ Len(windows) = 3

IsPrefix(a, b) == Len(a) <= Len(b) /\ SubSeq(b, 1, Len(a)) = a

\* The first window on its chromosome: the first window of all, or the window
\* after a window on another chromosome.
FirstOnChromosome(i) == i = 1 \/ windows[i - 1].chromosome # windows[i].chromosome

\* The window [s, s + width - 1] on chr holds a site of the file.
HoldsSite(chr, s) == PositionsIn(file.records, chr, s, s + window.width - 1) # << >>

WindowStride == effective_stride(window.width, window.stride)

WindowTriples == [ i \in 1..Len(windows) |->
                    << windows[i].chromosome, windows[i].first, windows[i].last >> ]

WindowSizes == [ i \in 1..Len(windows) |-> Len(windows[i].entries) ]

\* C11: whatever the width and the stride, every emitted window holds just the
\* sites of its own chromosome in its interval (none of another chromosome);
\* the first window on a chromosome is the first window of the grid
\* 1, 1 + stride, ... of that chromosome that holds a site of it, whatever the
\* positions on the chromosome before; the windows of one chromosome are
\* adjacent in the output. The sites (A,9), (A,11), (B,1) with width 10 and
\* stride 10 give exactly the three windows A [1,10], A [11,20], B [1,10].
C11_ChromosomeTransition ==
    OneWindowIterator =>
        /\ \A i \in 1..Len(windows) :
            /\ \E r \in 1..Len(file.records) : file.records[r].chromosome = windows[i].chromosome
            /\ Len(windows[i].entries) =
                    Len(PositionsIn(file.records, windows[i].chromosome,
                                    windows[i].first, windows[i].last))
            /\ window.flavor = "variant" =>
                    \A j \in 1..Len(windows[i].entries) :
                        windows[i].entries[j].chromosome = windows[i].chromosome
            /\ FirstOnChromosome(i) =>
                    /\ (windows[i].first - 1) % WindowStride = 0
                    /\ HoldsSite(windows[i].chromosome, windows[i].first)
                    /\ \A s \in 1..(windows[i].first - 1) :
                            (s - 1) % WindowStride = 0 => ~ HoldsSite(windows[i].chromosome, s)
            /\ \A j \in 1..(i - 1) :
                    windows[j].chromosome = windows[i].chromosome =>
                        windows[i - 1].chromosome = windows[i].chromosome
        /\ (WindowsDone /\ file = TransitionFile) =>
            /\ WindowTriples = << << << "A" >>, 1, 10 >>, << << "A" >>, 11, 20 >>,
                                  << << "B" >>, 1, 10 >> >>
            /\ WindowSizes = << 1, 1, 1 >>

C11_Witness ==
    /\ OneWindowIterator
    /\ WindowsDone
    /\ file = TransitionFile
    /\ Len(windows) = 3
    /\ windows[2].chromosome = << "A" >>
    /\ windows[3].chromosome = << "B" >>
    /\ windows[3].first = 1

\* The window iterator as made by the getter, with another stride.
WithStride(stride) == [ window EXCEPT !.stride = stride, !.chromosome = << >>,
                                      !.start = 0, !.buf = << >> ]

\* The stride that C12 compares the stride of the run with.
OtherStride == IF window.stride = 0 THEN window.width ELSE 0

C13_NoEmptyWindow ==
    OneWindowIterator =>
        /\ \A i \in 1..Len(windows) :
            /\ windows[i].entries # << >>
            /\ HoldsSite(windows[i].chromosome, windows[i].first)
        /\ WindowStride >= window.width => Len(windows) <= Len(file.records)
        /\ (WindowsDone /\ file = GapFile) =>
            /\ WindowTriples = << << << "A" >>, 1, 10 >>, << << "A" >>, 999991, 1000000 >> >>
            /\ WindowSizes = << 1, 1 >>

C13_Witness ==
    /\ OneWindowIterator
    /\ WindowsDone
    /\ file = GapFile
    /\ Len(windows) = 2
    /\ windows[2].first > windows[1].last + window.width

\* The sites of a sequence of records or of Variants.
SitesOf(seq) == [ i \in 1..Len(seq) |-> << seq[i].chromosome, seq[i].position >> ]

\* The records of the file that the reader of the selected format hands on:
\* all of them, or for VCF those that pass its content filter.
RECURSIVE SourceRecords(_)
SourceRecords(records) ==
    IF records = << >> THEN << >>
    ELSE IF is_set("vcf_file_") /\ ~ vcf_range_filter(Head(records))
    THEN SourceRecords(Tail(records))
    ELSE << Head(records) >> \o SourceRecords(Tail(records))

\* The consumer of the range has reached the end of the stream.
StreamDone == range /\ generator_.set /\ generator_.it = << >>

\* C14: with an empty region (not given, or given as the empty text), no region
\* text is parsed and the generator has no region filter; the Variants yielded
\* are, one by one, the records of the unfiltered source in its order, and all
\* of them at the end of the stream.
C14_EmptyRegionPassThrough ==
    value.filter_region_ = << >> =>
        /\ ret.err.error # "InvalidRegion"
        /\ generator_.set => ~ generator_.filtered
        /\ IsPrefix(SitesOf(yielded), SitesOf(SourceRecords(file.records)))
        /\ StreamDone => SitesOf(yielded) = SitesOf(SourceRecords(file.records))
        /\ (ret.fn = "get_iterator" /\ calls = 1 /\ file.records # << >>) =>
                ret.err.error = "none" /\ generator_.set

C14_Witness ==
    /\ value.filter_region_ = << >>
    /\ "filter_region_" \in count
    /\ StreamDone
    /\ Len(yielded) = 2
    /\ yielded[1].chromosome # yielded[2].chromosome

\* C15: filtering the records that the filter range of the generator lets
\* through once more, with the same region, gives the same records; and the
\* Variants yielded are the records that the filter range lets through.
C15_RegionFilterIdempotent ==
    (generator_.set /\ generator_.filtered) =>
        /\ filter_range(generator_, filter_range(generator_, file.records))
                = filter_range(generator_, file.records)
        /\ IsPrefix(SitesOf(yielded), SitesOf(filter_range(generator_, file.records)))
        /\ StreamDone => SitesOf(yielded) = SitesOf(filter_range(generator_, file.records))

C15_Witness ==
    /\ generator_.set
    /\ generator_.filtered
    /\ StreamDone
    /\ Len(yielded) = 1
    /\ Len(file.records) = 2
    /\ ~ is_covered(generator_.region, file.records[1])

\* The records that are on the chromosome of region r and, unless r is a whole
\* chromosome, at a position from its start to its end, both included.
RECURSIVE Matching(_, _)
Matching(r, records) ==
    IF records = << >> THEN << >>
    ELSE IF /\ Head(records).chromosome = r.chromosome
            /\ \/ r.form = "chromosome"
               \/ r.start <= Head(records).position /\ Head(records).position <= r.end
    THEN << Head(records) >> \o Matching(r, Tail(records))
    ELSE Matching(r, Tail(records))

\* C16: with the text of a region r given, the region parses, the first call
\* on a file with sites prepares the stream, and the Variants yielded are, one
\* by one and in the order of the source, the source records that r matches:
\* all of them at the end of the stream, so that a record at the start or at the
\* end of r is yielded and a record next to them is not.
C16_RegionFilterExact ==
    \A r \in Regions :
        value.filter_region_ = RegionText(r) =>
            /\ ret.err.error # "InvalidRegion"
            /\ (ret.fn = "get_iterator" /\ calls = 1 /\ file.records # << >>) =>
                    ret.err.error = "none" /\ generator_.set /\ generator_.filtered
            /\ IsPrefix(SitesOf(yielded), SitesOf(Matching(r, SourceRecords(file.records))))
            /\ StreamDone =>
                    SitesOf(yielded) = SitesOf(Matching(r, SourceRecords(file.records)))

C16_Witness ==
    /\ value.filter_region_ = << "A", ":", "1", "-", "2" >>
    /\ SitesOf(file.records) = << << << "A" >>, 2 >>, << << "A" >>, 3 >> >>
    /\ StreamDone
    /\ SitesOf(yielded) = << << << "A" >>, 2 >> >>

\* C17: with the VCF file as the one input and no AD format field in its
\* header, every call of a getter fails, the sample names and the generator
\* stay unset and nothing is yielded; the error is the one about the missing
\* AD field unless the command line is rejected before the header is looked at
\* (a sample name prefix, or a listed sample name that the file does not have).
C17_VcfWithoutADFails ==
    (is_set("vcf_file_") /\ NumFormats = 1 /\ ~ file.has_ad) =>
        /\ NoStream
        /\ yielded = << >>
        /\ windows = << >>
        /\ ret.fn \in Getters =>
            /\ ret.err.error # "none"
            /\ ret.names = << >>
            /\ (~ is_set("sample_name_prefix_") /\ (has_sample_filter => AllKnown)) =>
                    ret.err.error = "MissingAD"

C17_Witness ==
    /\ is_set("vcf_file_")
    /\ NumFormats = 1
    /\ ~ file.has_ad
    /\ value.filter_region_ # << >>
    /\ ret.fn = "sample_names"
    /\ ret.err.error = "MissingAD"
    /\ calls = 2
    /\ opened = 2

\* The records that are a SNP with exactly one alternative allele and that
\* have the AD field.
RECURSIVE BiallelicSnpsWithAD(_)
BiallelicSnpsWithAD(records) ==
    IF records = << >> THEN << >>
    ELSE IF Head(records).is_snp /\ Head(records).alternatives_count = 1 /\ Head(records).has_ad
    THEN << Head(records) >> \o BiallelicSnpsWithAD(Tail(records))
    ELSE BiallelicSnpsWithAD(Tail(records))

\* C18: for a VCF file (whose header has the AD field), no call fails whatever
\* the records are, and the Variants yielded are, one by one and in the order
\* of the file, its records that are a SNP with exactly one alternative allele
\* and the AD field: all of them at the end of the stream, also those after a
\* record that was skipped.
C18_VcfContentFilter ==
    is_set("vcf_file_") =>
        /\ ret.err.error = "none"
        /\ IsPrefix(SitesOf(yielded), SitesOf(BiallelicSnpsWithAD(file.records)))
        /\ StreamDone => SitesOf(yielded) = SitesOf(BiallelicSnpsWithAD(file.records))

C18_Witness ==
    /\ is_set("vcf_file_")
    /\ Len(file.records) = 2
    /\ file.records[1].is_snp
    /\ file.records[1].has_ad
    /\ file.records[1].alternatives_count = 2
    /\ StreamDone
    /\ SitesOf(yielded) = << << << "A" >>, 2 >> >>

\* C19: with a pileup or sync file without a first record as the one input,
\* every call of a getter fails with the error of the empty input at its one
\* open of the file; no sample names are made, no generator is set, and
\* nothing is handed out or yielded.
C19_EmptyInputFails ==
    (NumFormats = 1 /\ ~ is_set("vcf_file_") /\ file.records = << >> /\ pc = "run") =>
        /\ NoStream
        /\ yielded = << >>
        /\ windows = << >>
        /\ opened = calls
        /\ ret.fn \in Getters =>
            /\ ret.err.error = "EmptyInput"
            /\ ret.names = << >>

C19_Witness ==
    /\ NumFormats = 1
    /\ is_set("sync_file_")
    /\ file.records = << >>
    /\ has_sample_filter
    /\ ret.fn = "get_iterator"
    /\ ret.err.error = "EmptyInput"
    /\ calls = 2

HasPrefix(str, prefix) == Len(prefix) <= Len(str) /\ SubSeq(str, 1, Len(prefix)) = prefix

\* C20: with a sample name prefix given and the VCF file as the one input,
\* every call of a getter fails with the error about the prefix, and the file
\* is never opened; the sample names of a VCF file are always names of its
\* header, and those of a pileup or sync file all start with the prefix.
C20_PrefixOnlyWithoutNames ==
    NumFormats = 1 =>
        /\ (is_set("sample_name_prefix_") /\ is_set("vcf_file_")) =>
            /\ opened = 0
            /\ NoStream
            /\ ret.fn \in Getters => ret.err.error = "SampleNamePrefix"
        /\ is_set("vcf_file_") => IsSubsequence(sample_names_, vcf_header_names)
        /\ ~ is_set("vcf_file_") =>
                \A k \in 1..Len(sample_names_) :
                    HasPrefix(sample_names_[k], value.sample_name_prefix_)

C20_Witness ==
    /\ NumFormats = 1
    /\ is_set("vcf_file_")
    /\ is_set("sample_name_prefix_")
    /\ file.records # << >>
    /\ file.has_ad
    /\ ret.fn = "sample_names"
    /\ ret.err.error = "SampleNamePrefix"
    /\ calls = 2
    /\ opened = 0

\* The records of the file that the iterator of the generator has passed.
Consumed == SubSeq(file.records, 1, Len(file.records) - Len(generator_.it))

SinglePass ==
    /\ IsSubsequence(SitesOf(yielded), SitesOf(SourceRecords(file.records)))
    /\ NoDuplicates(SitesOf(yielded))
    /\ Range(SitesOf(yielded)) \cap Range(SitesOf(window.buf)) = {}
    /\ conversions <= Len(Consumed)
    /\ ended => generator_.it = << >>

\* C23: over all calls of the getters and all pulls of the range and of the
\* window iterators, the Variants yielded are records that the reader hands on,
\* in the order of the file and each at most once, and none of them is also
\* handed to a window iterator; once a call of the generator function has
\* returned nullptr, the input is used up and no step yields or converts
\* anything more.
C23_SinglePassInOrder ==
    /\ []SinglePass
    /\ [][ended => (/\ ended'
                    /\ yielded' = yielded
                    /\ conversions' = conversions
                    /\ generator_'.it = << >>)]_vars

C23_Witness ==
    /\ calls = 2
    /\ range
    /\ window.active
    /\ Len(yielded) = 1
    /\ Len(windows) = 1
    /\ ended
    /\ pulls = 3

\* The columns of the file that the sample filter of the command line keeps.
RECURSIVE KeptColumns(_)
KeptColumns(n) ==
    IF n = 0 THEN << >>
    ELSE IF (value.filter_samples_include_ # << >>) = (ColumnName(n) \in Range(ActiveList))
    THEN Append(KeptColumns(n - 1), n)
    ELSE KeptColumns(n - 1)

\* C24: for a pileup or sync file, once the stream is prepared the file has
\* been opened once without a sample filter and twice with one, and no later
\* call opens it again; the Variants yielded are the records of the file from
\* the first one on, one by one, so that the record read at the first open is
\* neither lost nor yielded twice; with a filter, each of them has just the
\* columns that the filter keeps.
C24_OpenOnceOrTwice ==
    (~ is_set("vcf_file_") /\ generator_.set) =>
        /\ opened = IF has_sample_filter THEN 2 ELSE 1
        /\ IsPrefix(SitesOf(yielded), SitesOf(file.records))
        /\ StreamDone => SitesOf(yielded) = SitesOf(file.records)
        /\ \A n \in 1..Len(yielded) :
                yielded[n].samples =
                    IF has_sample_filter THEN KeptColumns(file.smp_cnt)
                    ELSE [ i \in 1..file.smp_cnt |-> i ]

C24_Witness ==
    /\ is_set("sync_file_")
    /\ value.filter_samples_exclude_ = << "1" >>
    /\ file.smp_cnt = 2
    /\ opened = 2
    /\ calls = 2
    /\ Len(file.records) = 2
    /\ StreamDone
    /\ Len(yielded) = 2
    /\ yielded[1].position = 1
    /\ yielded[1].samples = << 2 >>

\* The window iterator as made by the getter of the other flavor.
OtherFlavor ==
    [ window EXCEPT !.flavor = IF window.flavor = "variant" THEN "base_count" ELSE "variant",
                    !.chromosome = << >>, !.start = 0, !.buf = << >> ]

\* The sample entries of a window of either flavor.
SampleEntries(flavor, w) ==
    [ j \in 1..Len(w.entries) |->
        IF flavor = "variant" THEN w.entries[j].samples ELSE w.entries[j] ]

\* Window a of one flavor and window b of the other are the same window.
SameWindow(flavor, a, b) ==
    /\ a.chromosome = b.chromosome
    /\ a.first = b.first
    /\ a.last = b.last
    /\ Len(a.entries) = Len(b.entries)
    /\ SampleEntries(flavor, a) = SampleEntries(OtherFlavor.flavor, b)

\* The windows that the window iterator of the other flavor emits for the
\* same input, width and stride.
OtherFlavorWindows == build_windows(OtherFlavor, << 0, << >> >>, << >>, iterator_begin)

\* C25: the windows emitted by a window iterator of one flavor are, one by
\* one, the windows that the window iterator of the other flavor emits for the
\* same input, width and stride: the same chromosome, interval and number of
\* entries, entry j of the base count window being the samples of entry j of
\* the Variant window; and there are as many of them at the end of the stream.
C25_FlavorsAgree ==
    OneWindowIterator =>
        /\ Len(windows) <= Len(OtherFlavorWindows)
        /\ \A i \in 1..Len(windows) :
                SameWindow(window.flavor, windows[i], OtherFlavorWindows[i])
        /\ WindowsDone => Len(windows) = Len(OtherFlavorWindows)
        /\ \A i \in 1..Len(windows) :
                SampleEntries(window.flavor, windows[i])
                    = [ j \in 1..Len(windows[i].entries) |-> << 1 >> ]

C25_Witness ==
    /\ OneWindowIterator
    /\ window.flavor = "base_count"
    /\ WindowsDone
    /\ file = ExampleFile
    /\ Len(windows) = 3
    /\ windows[1].entries = << << 1 >>, << 1 >>, << 1 >> >>

\* A step that is a call of one of the getters.
GetterCall == calls' = calls + 1

\* C27: once the generator is set, a call of sample_names(), of get_iterator()
\* or of a window getter opens no file, leaves the generator as it is (what
\* was captured and how far it has been read) and leaves the sample names as
\* they are; the preparation does not fail in it, and sample_names() returns
\* the sample names that were set by the one preparation.
C27_PreparedOnce ==
    [][(generator_.set /\ GetterCall) =>
            /\ opened' = opened
            /\ generator_' = generator_
            /\ sample_names_' = sample_names_
            /\ ret'.err.error \in { "none", "InvalidWindowWidth" }
            /\ ret'.fn = "sample_names" =>
                    ret'.err.error = "none" /\ ret'.names = sample_names_]_vars

C27_Witness ==
    /\ calls = 2
    /\ generator_.set
    /\ has_sample_filter
    /\ opened = 2
    /\ yielded # << >>
    /\ ret.fn = "sample_names"
    /\ ret.names = sample_names_
    /\ ret.names # << >>

\* The errors that the preparation raises after the checks of the command line.
PreparationErrors == { "InvalidSampleName", "InvalidRegion", "EmptyInput", "MissingAD" }

\* The last call was a getter whose preparation failed.
PreparationFailed == ret.fn \in Getters /\ ret.err.error \in PreparationErrors

\* C28: after a call whose preparation failed, sample_names_ is empty and
\* generator_ is unset, and the next call of a getter fails with the same
\* error, naming the same sample.
C28_FailedPreparationLeavesUnprepared ==
    /\ [](PreparationFailed => (sample_names_ = << >> /\ ~ generator_.set))
    /\ [][(PreparationFailed /\ GetterCall) => ret'.err = ret.err]_vars

\* C26: whatever the order in which the steps of the prepare function, the
\* workers of the reader and the pulls of the consumer are taken, no worker
\* reads the members of an iterator that has been destroyed (the one of the
\* first open, replaced or gone out of scope); after the prepare function has
\* returned, the copy that the generator holds is alive, the next record is
\* parsed or being parsed for it, so that the pull can go on, and the records
\* pulled are the records of the file in its order.
C26_ReadAheadOwnsItsState ==
    /\ ~ adapter.dangling
    /\ IsPrefix(SitesOf(yielded), SitesOf(file.records))
    /\ adapter.step = "returned" =>
        /\ adapter.handle[adapter.captured] = "alive"
        /\ adapter.handle[1] = "destroyed"
        /\ adapter.pos < Len(file.records) =>
            \/ (adapter.pos + 1) \in adapter.parsed
            \/ \E t \in adapter.tasks :
                    t.stream = adapter.stream /\ t.index = adapter.pos + 1
        /\ (adapter.tasks = {} /\ adapter.pos = Len(file.records)) =>
                SitesOf(yielded) = SitesOf(file.records)

C26_Witness ==
    /\ adapter.step = "returned"
    /\ adapter.handle[1] = "destroyed"
    /\ adapter.handle[2] = "destroyed"
    /\ adapter.handle[3] = "alive"
    /\ adapter.tasks = {}
    /\ Len(file.records) = 2
    /\ Len(yielded) = 2

====
